---- MODULE Spec2Model ----
(***************************************************************************)
(* FoodieRank: the review ledger (models/Review.js), the rating aggregator *)
(* (Restaurant.updateRating) and the collections they work on.             *)
(*                                                                         *)
(* Every `await` of a store call is one atomic step of the store; a call   *)
(* in flight is a record in `calls` holding the handler's position and its *)
(* local variables.  Ratings stored on a restaurant are kept in tenths     *)
(* (rating 4.3 is the integer 43).  ObjectIds are small integers, Nil is   *)
(* "no id".                                                                *)
(***************************************************************************)
EXTENDS Integers, FiniteSets, Sequences, TLC

\* ----- bounds -----------------------------------------------------------
NumUsers == 2
NumRestaurants == 2
MaxReviews == 2
TopRating == 2
NumComments == 1
MaxCounter == 1
NumSlots == 2
MaxPatchFields == 1
MaxRun == 3
NumCategories == 2
MaxRankedCount == 11
SumSpread == 4

\* ----- program constants --------------------------------------------------
MinRating == 1
MaxRating == 5

Nil == 0
Users == 1..NumUsers
RestaurantIds == 1..NumRestaurants
ReviewIds == 1..MaxReviews
Ratings == MinRating..TopRating
Comments == 1..NumComments
Slots == 1..NumSlots
ReactionTypes == {"like", "dislike"}
Categories == 1..NumCategories

\* role field of the user document; the default admin is the last user
Role(u) == IF u = NumUsers THEN "admin" ELSE "user"

VARIABLES
  restaurants,      \* collection "restaurants": id -> document
  reviews,          \* collection "reviews": set of documents
  reviewReactions,  \* collection "reviewReactions": documents in insertion order
  nextReviewId,     \* next fresh ObjectId of a review
  calls             \* the calls in flight, one per slot

vars == <<restaurants, reviews, reviewReactions, nextReviewId, calls>>

\* ----- documents ----------------------------------------------------------
\* no document under the id; deleted tells an id whose document deleteOne
\* removed (ObjectIds are never handed out twice) from one not yet handed out
NoRestaurant ==
  [exists |-> FALSE, deleted |-> FALSE, approved |-> FALSE, category |-> Nil,
   rating |-> 0, reviewCount |-> 0]

\* new Restaurant(restaurantData): rating and reviewCount start at 0 (the
\* restaurants the directory opens are filed under the first category)
NewRestaurant(approved) ==
  [exists |-> TRUE, deleted |-> FALSE, approved |-> approved, category |-> 1,
   rating |-> 0, reviewCount |-> 0]

\* new Review(reviewData): likes and dislikes start at 0
NewReview(id, userId, restaurantId, rating, comment) ==
  [_id |-> id, userId |-> userId, restaurantId |-> restaurantId,
   rating |-> rating, comment |-> comment, likes |-> 0, dislikes |-> 0]

\* updateData of Review.updateById: the fields the caller put in the patch
\* (Nil = field absent)
AllPatches ==
  [rating : {Nil} \cup Ratings, comment : {Nil} \cup Comments,
   userId : {Nil} \cup Users, restaurantId : {Nil} \cup RestaurantIds]

PatchSize(p) ==
  (IF p.rating # Nil THEN 1 ELSE 0) + (IF p.comment # Nil THEN 1 ELSE 0)
  + (IF p.userId # Nil THEN 1 ELSE 0) + (IF p.restaurantId # Nil THEN 1 ELSE 0)

\* the patches the model draws: at most MaxPatchFields fields each
Patches == {p \in AllPatches : PatchSize(p) <= MaxPatchFields}

\* the patches of a caller that keeps to rating and comment
ContentPatches == {p \in Patches : p.userId = Nil /\ p.restaurantId = Nil}

NoPatch == [rating |-> Nil, comment |-> Nil, userId |-> Nil, restaurantId |-> Nil]

\* { $set: updateData } applied to a review document
ApplySet(r, p) ==
  [r EXCEPT !.rating = IF p.rating # Nil THEN p.rating ELSE @,
            !.comment = IF p.comment # Nil THEN p.comment ELSE @,
            !.userId = IF p.userId # Nil THEN p.userId ELSE @,
            !.restaurantId = IF p.restaurantId # Nil THEN p.restaurantId ELSE @]

\* ----- the store ----------------------------------------------------------
\* createIndexes: the createIndex calls, in the order the code awaits them
\* (filter is the partialFilterExpression)
IndexRequests ==
  << [coll |-> "users", key |-> "email", unique |-> TRUE, filter |-> "none"],
     [coll |-> "users", key |-> "role", unique |-> FALSE, filter |-> "none"],
     [coll |-> "restaurants", key |-> "name", unique |-> TRUE, filter |-> "none"],
     [coll |-> "restaurants", key |-> "category", unique |-> FALSE, filter |-> "none"],
     [coll |-> "restaurants", key |-> "approved", unique |-> FALSE, filter |-> "none"],
     [coll |-> "restaurants", key |-> "location", unique |-> FALSE, filter |-> "none"],
     [coll |-> "dishes", key |-> "restaurantId", unique |-> FALSE, filter |-> "none"],
     [coll |-> "dishes", key |-> "name,restaurantId", unique |-> TRUE, filter |-> "none"],
     [coll |-> "reviews", key |-> "restaurantId", unique |-> FALSE, filter |-> "none"],
     [coll |-> "reviews", key |-> "userId", unique |-> FALSE, filter |-> "none"],
     [coll |-> "reviews", key |-> "userId,restaurantId,dishId", unique |-> TRUE,
      filter |-> "dishId: $exists true, $type objectId"],
     [coll |-> "reviews", key |-> "userId,restaurantId", unique |-> TRUE,
      filter |-> "dishId: $exists false"],
     [coll |-> "reviews", key |-> "createdAt", unique |-> FALSE, filter |-> "none"],
     [coll |-> "categories", key |-> "name", unique |-> TRUE, filter |-> "none"],
     [coll |-> "reviewReactions", key |-> "reviewId,userId", unique |-> TRUE, filter |-> "none"],
     [coll |-> "reviewReactions", key |-> "reviewId", unique |-> FALSE, filter |-> "none"] >>

\* the store builds a partial index only for the filter expressions it
\* supports (equality, $exists: true, comparisons, $type, $and); it refuses
\* $exists: false with "unsupported expression in partial index"
StoreAcceptsFilter(filter) == filter # "dishId: $exists false"

\* createIndexes awaits the calls inside one try block: the first refused
\* call throws, the catch logs the error, the calls after it never run
CreatedIndexes ==
  {IndexRequests[i] : i \in {j \in 1..Len(IndexRequests) :
      \A k \in 1..j : StoreAcceptsFilter(IndexRequests[k].filter)}}

HasUniqueIndex(coll, key) ==
  \E ix \in CreatedIndexes : ix.coll = coll /\ ix.key = key /\ ix.unique

\* unique index { userId: 1, restaurantId: 1 } on reviews, for the documents
\* without a dishId (all of them: the Review constructor never copies one):
\* a write that leaves coll with two documents of one key is rejected
ReviewIndexRejects(coll) ==
  /\ HasUniqueIndex("reviews", "userId,restaurantId")
  /\ \E a \in coll : \E b \in coll :
       a._id # b._id /\ a.userId = b.userId /\ a.restaurantId = b.restaurantId

\* unique index { reviewId: 1, userId: 1 } on reviewReactions: the insert of
\* doc is rejected when a stored reaction has its key
ReactionIndexRejects(coll, doc) ==
  /\ HasUniqueIndex("reviewReactions", "reviewId,userId")
  /\ \E i \in DOMAIN coll : coll[i].reviewId = doc.reviewId /\ coll[i].userId = doc.userId

\* findOne({ userId, restaurantId }) of Review.create
ExistingReview_NoCheck(userId, restaurantId) == {}

ExistingReview(userId, restaurantId) ==
  {r \in reviews : r.userId = userId /\ r.restaurantId = restaurantId}

\* findOne({ _id: id, userId }) of Review.updateById and Review.deleteById
OwnedReview_AnyUser(id, userId) == {r \in reviews : r._id = id}

OwnedReview(id, userId) == {r \in reviews : r._id = id /\ r.userId = userId}

\* reviewReactions after deleteMany({ reviewId: id })
WithoutReactionsOf_NoCascade(id) == reviewReactions

WithoutReactionsOf(id) == SelectSeq(reviewReactions, LAMBDA x : x.reviewId # id)

ReviewsOf(rid) == {r \in reviews : r.restaurantId = rid}

RECURSIVE SumRatings(_)
SumRatings(S) ==
  IF S = {} THEN 0
  ELSE LET r == CHOOSE x \in S : TRUE IN r.rating + SumRatings(S \ {r})

\* Math.round(avg * 10) / 10, in tenths: round half up of 10 * sum / count
RoundedMean(sum, count) == (20 * sum + count) \div (2 * count)

\* rating and reviewCount computed from the $group result (absent when no
\* review matched)
RatingOf(sum, count) == IF count > 0 THEN RoundedMean(sum, count) ELSE 0

\* positions of the reactions that match { reviewId, userId }
Matching(reviewId, userId) ==
  {i \in DOMAIN reviewReactions :
     reviewReactions[i].reviewId = reviewId /\ reviewReactions[i].userId = userId}

\* the document findOne, updateOne and deleteOne act on: the first match
FirstMatch(reviewId, userId) ==
  {i \in Matching(reviewId, userId) : \A j \in Matching(reviewId, userId) : i <= j}

\* Review.getUserReaction: findOne({ reviewId, userId }), {} for null
GetUserReaction(reviewId, userId) ==
  {reviewReactions[i] : i \in FirstMatch(reviewId, userId)}

\* deleteOne({ reviewId, userId })
DeleteOneReaction(reviewId, userId) ==
  LET m == FirstMatch(reviewId, userId) IN
    IF m = {} THEN reviewReactions
    ELSE LET i == CHOOSE i \in m : TRUE IN
           SubSeq(reviewReactions, 1, i - 1) \o
           SubSeq(reviewReactions, i + 1, Len(reviewReactions))

\* the updateOne left out
UpdateOneReaction_Keep(reviewId, userId, type) == reviewReactions

\* updateOne({ reviewId, userId }, { $set: { type } })
UpdateOneReaction(reviewId, userId, type) ==
  [i \in DOMAIN reviewReactions |->
     IF i \in FirstMatch(reviewId, userId)
     THEN [reviewReactions[i] EXCEPT !.type = type]
     ELSE reviewReactions[i]]

\* ----- calls --------------------------------------------------------------
\* req.user of a request: the users document the JWT strategy loaded, which
\* has _id and role
NoUser == [_id |-> Nil, role |-> "none"]

ReqUsers == [_id : Users, role : {"user", "admin"}]

IdleCall ==
  [op |-> "idle", pc |-> "idle", id |-> Nil, userId |-> Nil, restaurantId |-> Nil,
   rating |-> Nil, comment |-> Nil, updateData |-> NoPatch, reactionType |-> "none",
   existingType |-> "none", count |-> 0, sum |-> 0, deleted |-> FALSE,
   outcome |-> "none", run |-> 0, base |-> 0,
   category |-> Nil, limit |-> 0, ranking |-> << >>, user |-> NoUser]

Idle(s) == calls[s].op = "idle"
AllIdle == \A s \in Slots : Idle(s)

\* the call returns or throws: the handler is over, its outcome is what the
\* caller sees
Finish(c, outcome) == [c EXCEPT !.pc = "done", !.outcome = outcome]

\* review inserts that calls in flight may still issue
PendingInserts ==
  Cardinality({s \in Slots : calls[s].op = "create"
                 /\ calls[s].pc \in {"findApproved", "findAny", "insert"}})

Init ==
  /\ restaurants = [r \in RestaurantIds |-> NoRestaurant]
  /\ reviews = {}
  /\ reviewReactions = << >>
  /\ nextReviewId = 1
  /\ calls = [s \in Slots |-> IdleCall]

\* ----- Restaurant ---------------------------------------------------------
\* Restaurant.create: insertOne with a fresh id
RestaurantCreate(approved) ==
  /\ \E id \in RestaurantIds :
       /\ ~restaurants[id].exists /\ ~restaurants[id].deleted
       /\ \A j \in RestaurantIds :
            j < id => (restaurants[j].exists \/ restaurants[j].deleted)
       /\ restaurants' = [restaurants EXCEPT ![id] = NewRestaurant(approved)]
  /\ UNCHANGED <<reviews, reviewReactions, nextReviewId, calls>>

\* POST /restaurants: approved is req.user.role === "admin"
PostRestaurant(role) == RestaurantCreate(role = "admin")

\* Restaurant.approve: findOneAndUpdate { $set: { approved: true } }
RestaurantApprove(id) ==
  /\ restaurants[id].exists
  /\ ~restaurants[id].approved
  /\ restaurants' = [restaurants EXCEPT ![id].approved = TRUE]
  /\ UNCHANGED <<reviews, reviewReactions, nextReviewId, calls>>

\* updateData of Restaurant.updateById: a record of the fields the caller
\* put in the request body
RestaurantPatches ==
  {[approved |-> b] : b \in BOOLEAN}
    \cup {[rating |-> v] : v \in {0, 10 * MaxRating}}
    \cup {[reviewCount |-> n] : n \in {0, MaxReviews}}

\* { $set: updateData } applied to a restaurant document
ApplyRestaurantSet(doc, updateData) ==
  [f \in DOMAIN doc |-> IF f \in DOMAIN updateData THEN updateData[f] ELSE doc[f]]

\* Restaurant.updateById: findOneAndUpdate({ _id: id }, { $set: updateData })
RestaurantUpdateById(id, updateData) ==
  /\ restaurants[id].exists
  /\ restaurants' = [restaurants EXCEPT ![id] = ApplyRestaurantSet(@, updateData)]
  /\ UNCHANGED <<reviews, reviewReactions, nextReviewId, calls>>

\* Restaurant.deleteById: deleteOne({ _id: id }); the reviews that reference
\* the restaurant stay
RestaurantDeleteById(id) ==
  /\ restaurants[id].exists
  /\ restaurants' = [restaurants EXCEPT ![id] = [NoRestaurant EXCEPT !.deleted = TRUE]]
  /\ UNCHANGED <<reviews, reviewReactions, nextReviewId, calls>>

\* ----- Restaurant.getRanking ----------------------------------------------
\* $match { approved: true }, and category when the option is given
Candidates(category) ==
  {id \in RestaurantIds :
     /\ restaurants[id].exists /\ restaurants[id].approved
     /\ category # Nil => restaurants[id].category = category}

\* $addFields weightedScore, in hundredths (rating is in tenths):
\* $cond reviewCount > 0, then rating * 0.7 + min(reviewCount / 10, 1) * 0.3,
\* else 0; the products and the sum are taken exactly
WeightedScore_Uncapped(doc) ==
  IF doc.reviewCount > 0 THEN 7 * doc.rating + 3 * doc.reviewCount ELSE 0

WeightedScore_RatingOnly(doc) ==
  IF doc.reviewCount > 0 THEN 7 * doc.rating ELSE 0

\* rating and volume weighted 0.5 each
WeightedScore_EvenWeights(doc) ==
  IF doc.reviewCount > 0
  THEN 5 * doc.rating + 5 * (IF doc.reviewCount < 10 THEN doc.reviewCount ELSE 10)
  ELSE 0

WeightedScore(doc) ==
  IF doc.reviewCount > 0
  THEN 7 * doc.rating + 3 * (IF doc.reviewCount < 10 THEN doc.reviewCount ELSE 10)
  ELSE 0

\* $sort { weightedScore: -1, reviewCount: -1, rating: -1 }: a sorts strictly
\* before b
SortsBefore_CountFirst(a, b) ==
  \/ a.reviewCount > b.reviewCount
  \/ a.reviewCount = b.reviewCount /\ WeightedScore(a) > WeightedScore(b)

SortsBefore(a, b) ==
  \/ WeightedScore(a) > WeightedScore(b)
  \/ /\ WeightedScore(a) = WeightedScore(b)
     /\ \/ a.reviewCount > b.reviewCount
        \/ a.reviewCount = b.reviewCount /\ a.rating > b.rating

\* the orders $sort may put the documents of S in (documents with equal keys
\* come out in any order)
SortedOrders(S) ==
  {seq \in [1..Cardinality(S) -> S] :
     /\ \A i \in DOMAIN seq : \A j \in DOMAIN seq : seq[i] = seq[j] => i = j
     /\ \A i \in DOMAIN seq : \A j \in DOMAIN seq :
          i < j => ~SortsBefore(restaurants[seq[j]], restaurants[seq[i]])}

\* $limit
FirstN(seq, limit) == SubSeq(seq, 1, IF limit < Len(seq) THEN limit ELSE Len(seq))

\* Restaurant.getRanking({ limit, category }): one aggregate call
GetRanking(s, category, limit) ==
  /\ Idle(s)
  /\ \E seq \in SortedOrders(Candidates(category)) :
       calls' = [calls EXCEPT ![s] =
         Finish([IdleCall EXCEPT !.op = "ranking", !.category = category,
                                 !.limit = limit, !.ranking = FirstN(seq, limit)], "ok")]
  /\ UNCHANGED <<restaurants, reviews, reviewReactions, nextReviewId>>

\* Restaurant.updateRating(id) called on its own
RecomputeCall(s, id) ==
  /\ Idle(s)
  /\ calls' = [calls EXCEPT ![s] =
       [IdleCall EXCEPT !.op = "recompute", !.restaurantId = id, !.pc = "scan"]]
  /\ UNCHANGED <<restaurants, reviews, reviewReactions, nextReviewId>>

\* the count taken from the stored reviewCount and the caller's own write, in
\* place of the scan
RatingScan_Incremental(s) ==
  /\ calls[s].pc = "scan"
  /\ LET rid == calls[s].restaurantId
         rs == ReviewsOf(rid)
         stored == IF rid \in RestaurantIds THEN restaurants[rid].reviewCount ELSE 0
         change == IF calls[s].op = "create" THEN 1
                   ELSE IF calls[s].op = "delete" THEN -1 ELSE 0 IN
       calls' = [calls EXCEPT ![s].count = IF stored + change > 0 THEN stored + change ELSE 0,
                              ![s].sum = SumRatings(rs),
                              ![s].pc = "write"]
  /\ UNCHANGED <<restaurants, reviews, reviewReactions, nextReviewId>>

\* Restaurant.updateRating, first await: the $match/$group aggregation
RatingScan(s) ==
  /\ calls[s].pc = "scan"
  /\ LET rs == ReviewsOf(calls[s].restaurantId) IN
       calls' = [calls EXCEPT ![s].count = Cardinality(rs),
                              ![s].sum = SumRatings(rs),
                              ![s].pc = "write"]
  /\ UNCHANGED <<restaurants, reviews, reviewReactions, nextReviewId>>

\* the rating from the caller's scan and the reviewCount from a second count
\* taken at the time of the write
RatingWrite_Split(s) ==
  /\ calls[s].pc = "write"
  /\ LET c == calls[s]
         rid == c.restaurantId IN
       /\ restaurants' =
            IF rid \in RestaurantIds /\ restaurants[rid].exists
            THEN [restaurants EXCEPT ![rid].rating = RatingOf(c.sum, c.count),
                                     ![rid].reviewCount = Cardinality(ReviewsOf(rid))]
            ELSE restaurants
       /\ calls' = [calls EXCEPT ![s] =
            Finish(c, IF c.op = "delete" /\ ~c.deleted THEN "notDeleted" ELSE "ok")]
  /\ UNCHANGED <<reviews, reviewReactions, nextReviewId>>

\* the write as { $inc: { reviewCount } } in place of { $set }
RatingWrite_Inc(s) ==
  /\ calls[s].pc = "write"
  /\ LET c == calls[s]
         rid == c.restaurantId IN
       /\ restaurants' =
            IF rid \in RestaurantIds /\ restaurants[rid].exists
            THEN [restaurants EXCEPT ![rid].rating = RatingOf(c.sum, c.count),
                                     ![rid].reviewCount = @ + c.count]
            ELSE restaurants
       /\ calls' = [calls EXCEPT ![s] =
            Finish(c, IF c.op = "delete" /\ ~c.deleted THEN "notDeleted" ELSE "ok")]
  /\ UNCHANGED <<reviews, reviewReactions, nextReviewId>>

\* Restaurant.updateRating, second await: updateOne { $set: { rating,
\* reviewCount } }; then the calling handler returns
RatingWrite(s) ==
  /\ calls[s].pc = "write"
  /\ LET c == calls[s]
         rid == c.restaurantId IN
       /\ restaurants' =
            IF rid \in RestaurantIds /\ restaurants[rid].exists
            THEN [restaurants EXCEPT ![rid].rating = RatingOf(c.sum, c.count),
                                     ![rid].reviewCount = c.count]
            ELSE restaurants
       /\ calls' = [calls EXCEPT ![s] =
            Finish(c, IF c.op = "delete" /\ ~c.deleted THEN "notDeleted" ELSE "ok")]
  /\ UNCHANGED <<reviews, reviewReactions, nextReviewId>>

\* a rejected store call inside Restaurant.updateRating: nothing catches it,
\* the awaiting handler rejects with it
Thrown_Swallowed(c) == Finish(c, "ok")

Thrown(c) == Finish(c, "StoreError")

\* the aggregate call or the updateOne of Restaurant.updateRating fails
RecomputeFails(s) ==
  /\ calls[s].pc \in {"scan", "write"}
  /\ calls' = [calls EXCEPT ![s] = Thrown(calls[s])]
  /\ UNCHANGED <<restaurants, reviews, reviewReactions, nextReviewId>>

\* ----- Review.create ------------------------------------------------------
\* the call and its first await: findOne({ userId, restaurantId })
CreateFindExisting(s, userId, restaurantId, rating, comment) ==
  /\ Idle(s)
  /\ nextReviewId + PendingInserts <= MaxReviews
  /\ LET c == [IdleCall EXCEPT !.op = "create", !.userId = userId,
                               !.restaurantId = restaurantId,
                               !.rating = rating, !.comment = comment] IN
       calls' = [calls EXCEPT ![s] =
         IF ExistingReview(userId, restaurantId) # {}
         THEN Finish(c, "DuplicateReview")
         ELSE [c EXCEPT !.pc = "findApproved"]]
  /\ UNCHANGED <<restaurants, reviews, reviewReactions, nextReviewId>>

\* the lookup as findOne({ _id: restaurantId }), without approved: true
CreateFindApproved_Ungated(s) ==
  /\ calls[s].op = "create" /\ calls[s].pc = "findApproved"
  /\ LET rid == calls[s].restaurantId IN
       calls' = [calls EXCEPT ![s].pc =
         IF restaurants[rid].exists THEN "insert" ELSE "findAny"]
  /\ UNCHANGED <<restaurants, reviews, reviewReactions, nextReviewId>>

\* findOne({ _id: restaurantId, approved: true })
CreateFindApproved(s) ==
  /\ calls[s].op = "create" /\ calls[s].pc = "findApproved"
  /\ LET rid == calls[s].restaurantId IN
       calls' = [calls EXCEPT ![s].pc =
         IF restaurants[rid].exists /\ restaurants[rid].approved
         THEN "insert" ELSE "findAny"]
  /\ UNCHANGED <<restaurants, reviews, reviewReactions, nextReviewId>>

\* the error thrown after findOne({ _id: restaurantId }): "not approved"
\* when the restaurant exists, "not found" when it does not
RestaurantFailure_OneKind(restaurantId) == "RestaurantNotFound"

RestaurantFailure(restaurantId) ==
  IF restaurants[restaurantId].exists
  THEN "RestaurantNotApproved" ELSE "RestaurantNotFound"

\* findOne({ _id: restaurantId }): tells "not approved" from "not found"
CreateFindAny(s) ==
  /\ calls[s].op = "create" /\ calls[s].pc = "findAny"
  /\ calls' = [calls EXCEPT ![s] = Finish(@, RestaurantFailure(calls[s].restaurantId))]
  /\ UNCHANGED <<restaurants, reviews, reviewReactions, nextReviewId>>

\* the insert with the recompute not awaited: the call returns right away
CreateInsert_NoAwait(s) ==
  /\ calls[s].op = "create" /\ calls[s].pc = "insert"
  /\ nextReviewId <= MaxReviews
  /\ LET c == calls[s]
         review == NewReview(nextReviewId, c.userId, c.restaurantId, c.rating, c.comment) IN
       /\ reviews' = reviews \cup {review}
       /\ nextReviewId' = nextReviewId + 1
       /\ calls' = [calls EXCEPT ![s] = Finish([c EXCEPT !.id = nextReviewId], "ok")]
  /\ UNCHANGED <<restaurants, reviewReactions>>

\* insertOne(review); the unique index may reject it (E11000)
CreateInsert(s) ==
  /\ calls[s].op = "create" /\ calls[s].pc = "insert"
  /\ nextReviewId <= MaxReviews
  /\ LET c == calls[s]
         review == NewReview(nextReviewId, c.userId, c.restaurantId, c.rating, c.comment) IN
       IF ReviewIndexRejects(reviews \cup {review})
       THEN /\ calls' = [calls EXCEPT ![s] = Finish(c, "DuplicateKey")]
            /\ UNCHANGED <<reviews, nextReviewId>>
       ELSE /\ reviews' = reviews \cup {review}
            /\ nextReviewId' = nextReviewId + 1
            /\ calls' = [calls EXCEPT ![s].id = nextReviewId, ![s].pc = "scan"]
  /\ UNCHANGED <<restaurants, reviewReactions>>

\* ----- Review.updateById --------------------------------------------------
\* the call and its first await: findOne({ _id: id, userId })
UpdateFindOwned(s, id, updateData, userId) ==
  /\ Idle(s)
  /\ LET c == [IdleCall EXCEPT !.op = "update", !.id = id, !.userId = userId,
                               !.updateData = updateData] IN
       calls' = [calls EXCEPT ![s] =
         IF OwnedReview(id, userId) # {}
         THEN LET existingReview == CHOOSE r \in OwnedReview(id, userId) : TRUE IN
                [c EXCEPT !.pc = "set", !.restaurantId = existingReview.restaurantId]
         ELSE Finish(c, "NotFoundOrNotOwner")]
  /\ UNCHANGED <<restaurants, reviews, reviewReactions, nextReviewId>>

\* findOneAndUpdate({ _id: id }, { $set: updateData }); a recompute follows
\* when updateData.rating is truthy
UpdateSet(s) ==
  /\ calls[s].op = "update" /\ calls[s].pc = "set"
  /\ LET c == calls[s]
         found == {r \in reviews : r._id = c.id}
         after == (reviews \ found) \cup {ApplySet(r, c.updateData) : r \in found} IN
       IF ReviewIndexRejects(after)
       THEN /\ calls' = [calls EXCEPT ![s] = Finish(c, "DuplicateKey")]
            /\ UNCHANGED reviews
       ELSE /\ reviews' = after
            /\ calls' = [calls EXCEPT ![s] =
                 IF c.updateData.rating # Nil THEN [c EXCEPT !.pc = "scan"]
                 ELSE Finish(c, "ok")]
  /\ UNCHANGED <<restaurants, reviewReactions, nextReviewId>>

\* ----- Review.deleteById --------------------------------------------------
\* the call and its first await: findOne({ _id: id, userId })
DeleteFindOwned(s, id, userId) ==
  /\ Idle(s)
  /\ LET c == [IdleCall EXCEPT !.op = "delete", !.id = id, !.userId = userId] IN
       calls' = [calls EXCEPT ![s] =
         IF OwnedReview(id, userId) # {}
         THEN LET review == CHOOSE r \in OwnedReview(id, userId) : TRUE IN
                [c EXCEPT !.pc = "deleteReactions", !.restaurantId = review.restaurantId]
         ELSE Finish(c, "NotFoundOrNotOwner")]
  /\ UNCHANGED <<restaurants, reviews, reviewReactions, nextReviewId>>

\* the cascade as deleteMany({}) on reviewReactions
DeleteReactions_All(s) ==
  /\ calls[s].op = "delete" /\ calls[s].pc = "deleteReactions"
  /\ reviewReactions' = << >>
  /\ calls' = [calls EXCEPT ![s].pc = "deleteReview"]
  /\ UNCHANGED <<restaurants, reviews, nextReviewId>>

\* deleteMany({ reviewId: id }) on reviewReactions
DeleteReactions(s) ==
  /\ calls[s].op = "delete" /\ calls[s].pc = "deleteReactions"
  /\ reviewReactions' = WithoutReactionsOf(calls[s].id)
  /\ calls' = [calls EXCEPT ![s].pc = "deleteReview"]
  /\ UNCHANGED <<restaurants, reviews, nextReviewId>>

\* deleteOne({ _id: id }) on reviews
DeleteReview(s) ==
  /\ calls[s].op = "delete" /\ calls[s].pc = "deleteReview"
  /\ reviews' = {r \in reviews : r._id # calls[s].id}
  /\ calls' = [calls EXCEPT ![s].deleted = (\E r \in reviews : r._id = calls[s].id),
                            ![s].pc = "scan"]
  /\ UNCHANGED <<restaurants, reviewReactions, nextReviewId>>

\* ----- Review.addReaction -------------------------------------------------
\* review.userId.toString() === userId.toString()
IsSelfReaction_Never(review, userId) == FALSE

IsSelfReaction(review, userId) == review.userId = userId

\* the call and its first await: findOne({ _id: reviewId }), then the
\* self-reaction test
\* run and base belong to the caller: the place of the call in its run of
\* identical calls (0: not in a run) and the counter's value when the run began
ReactCall(s, reviewId, userId, reactionType, run, base) ==
  /\ \A r \in reviews : r._id = reviewId =>
       /\ r.likes \in (0 - MaxCounter)..MaxCounter
       /\ r.dislikes \in (0 - MaxCounter)..MaxCounter
  /\ LET c == [IdleCall EXCEPT !.op = "react", !.id = reviewId, !.userId = userId,
                               !.reactionType = reactionType,
                               !.run = run, !.base = base] IN
       calls' = [calls EXCEPT ![s] =
         IF ~\E r \in reviews : r._id = reviewId
         THEN Finish(c, "ReviewNotFound")
         ELSE IF userId = Nil
         THEN Finish(c, "TypeError")
         ELSE IF IsSelfReaction(CHOOSE r \in reviews : r._id = reviewId, userId)
              THEN Finish(c, "SelfReaction")
              ELSE [c EXCEPT !.pc = "findReaction"]]
  /\ UNCHANGED <<restaurants, reviews, reviewReactions, nextReviewId>>

ReactFindReview(s, reviewId, userId, reactionType) ==
  /\ Idle(s)
  /\ ReactCall(s, reviewId, userId, reactionType, 0, 0)

\* likes or dislikes of a review document
CounterOf(review, type) == IF type = "like" THEN review.likes ELSE review.dislikes

\* the first call of a caller that repeats one reaction: it counts as the
\* start of a run when the user has no reaction on the review
ReactFirst(s, reviewId, userId, reactionType) ==
  /\ Idle(s)
  /\ \E r \in reviews : r._id = reviewId
  /\ ReactCall(s, reviewId, userId, reactionType,
               IF GetUserReaction(reviewId, userId) = {} THEN 1 ELSE 0,
               CounterOf(CHOOSE r \in reviews : r._id = reviewId, reactionType))

\* the caller repeats the call it has just seen succeed
ReactAgain(s) ==
  /\ calls[s].op = "react" /\ calls[s].pc = "done" /\ calls[s].outcome = "ok"
  /\ calls[s].run \in 1..(MaxRun - 1)
  /\ \A u \in Slots : u # s => Idle(u)
  /\ ReactCall(s, calls[s].id, calls[s].userId, calls[s].reactionType,
               calls[s].run + 1, calls[s].base)

\* findOne({ reviewId, userId }) on reviewReactions
ReactFindReaction(s) ==
  /\ calls[s].op = "react" /\ calls[s].pc = "findReaction"
  /\ LET found == GetUserReaction(calls[s].id, calls[s].userId) IN
       calls' = [calls EXCEPT ![s].existingType =
                    IF found = {} THEN "none" ELSE (CHOOSE x \in found : TRUE).type,
                              ![s].pc = "applyReaction"]
  /\ UNCHANGED <<restaurants, reviews, reviewReactions, nextReviewId>>

\* the write on reviewReactions: deleteOne (same type), updateOne (other
\* type) or insertOne (no reaction found)
ReactApply(s) ==
  /\ calls[s].op = "react" /\ calls[s].pc = "applyReaction"
  /\ LET c == calls[s]
         doc == [reviewId |-> c.id, userId |-> c.userId, type |-> c.reactionType] IN
       IF c.existingType = c.reactionType
       THEN /\ reviewReactions' = DeleteOneReaction(c.id, c.userId)
            /\ calls' = [calls EXCEPT ![s].pc = "inc"]
       ELSE IF c.existingType # "none"
       THEN /\ reviewReactions' = UpdateOneReaction(c.id, c.userId, c.reactionType)
            /\ calls' = [calls EXCEPT ![s].pc = "inc"]
       ELSE IF ReactionIndexRejects(reviewReactions, doc)
       THEN /\ calls' = [calls EXCEPT ![s] = Finish(c, "DuplicateKey")]
            /\ UNCHANGED reviewReactions
       ELSE /\ reviewReactions' = Append(reviewReactions, doc)
            /\ calls' = [calls EXCEPT ![s].pc = "inc"]
  /\ UNCHANGED <<restaurants, reviews, nextReviewId>>

\* likesChange without the toggle-off branch
LikesChange_AddOnly(existingType, reactionType) ==
  IF reactionType = "like" THEN 1
  ELSE IF existingType = "like" THEN -1 ELSE 0

\* likesChange of addReaction, from the reaction found and the one asked for
LikesChange(existingType, reactionType) ==
  IF existingType = reactionType THEN (IF reactionType = "like" THEN -1 ELSE 0)
  ELSE IF existingType # "none" THEN (IF reactionType = "like" THEN 1 ELSE -1)
  ELSE (IF reactionType = "like" THEN 1 ELSE 0)

\* dislikesChange of addReaction
DislikesChange(existingType, reactionType) ==
  IF existingType = reactionType THEN (IF reactionType = "like" THEN 0 ELSE -1)
  ELSE IF existingType # "none" THEN (IF reactionType = "like" THEN -1 ELSE 1)
  ELSE (IF reactionType = "like" THEN 0 ELSE 1)

\* findOneAndUpdate({ _id: reviewId }, { $inc: { likes, dislikes } })
ReactInc(s) ==
  /\ calls[s].op = "react" /\ calls[s].pc = "inc"
  /\ LET c == calls[s] IN
       /\ reviews' = {IF r._id = c.id
                      THEN [r EXCEPT !.likes = @ + LikesChange(c.existingType, c.reactionType),
                                     !.dislikes = @ + DislikesChange(c.existingType, c.reactionType)]
                      ELSE r : r \in reviews}
       /\ calls' = [calls EXCEPT ![s] = Finish(c, "ok")]
  /\ UNCHANGED <<restaurants, reviewReactions, nextReviewId>>

\* the caller has seen the call's result
Return(s) ==
  /\ calls[s].pc = "done"
  /\ calls' = [calls EXCEPT ![s] = IdleCall]
  /\ UNCHANGED <<restaurants, reviews, reviewReactions, nextReviewId>>

\* ----- routers/reviews.js and the error handler -----------------------------
\* req.user.id: the document has no field id, the expression is undefined
UserId(user) == Nil

\* review.userId.toString() !== req.user.id && req.user.role !== "admin"
OwnershipDenied(review, user) ==
  review.userId # UserId(user) /\ user.role # "admin"

\* POST /reviews: userId is req.user._id || req.user.id
PostReview(s, user, restaurantId, rating, comment) ==
  CreateFindExisting(s, IF user._id # Nil THEN user._id ELSE UserId(user),
                     restaurantId, rating, comment)

\* PUT /reviews/:id: Review.findById, the ownership test, Review.updateById
PutReview(s, id, user, body) ==
  /\ Idle(s)
  /\ LET found == {r \in reviews : r._id = id}
         c == [IdleCall EXCEPT !.op = "update", !.id = id, !.user = user,
                               !.updateData = body] IN
       IF found = {}
       THEN /\ calls' = [calls EXCEPT ![s] = Finish(c, "RouteNotFound")]
            /\ UNCHANGED <<restaurants, reviews, reviewReactions, nextReviewId>>
       ELSE IF OwnershipDenied(CHOOSE r \in found : TRUE, user)
       THEN /\ calls' = [calls EXCEPT ![s] = Finish(c, "RouteForbidden")]
            /\ UNCHANGED <<restaurants, reviews, reviewReactions, nextReviewId>>
       ELSE UpdateFindOwned(s, id, body, UserId(user))

\* DELETE /reviews/:id: Review.findById, the ownership test, Review.deleteById
DeleteReviewRoute(s, id, user) ==
  /\ Idle(s)
  /\ LET found == {r \in reviews : r._id = id}
         c == [IdleCall EXCEPT !.op = "delete", !.id = id, !.user = user] IN
       IF found = {}
       THEN /\ calls' = [calls EXCEPT ![s] = Finish(c, "RouteNotFound")]
            /\ UNCHANGED <<restaurants, reviews, reviewReactions, nextReviewId>>
       ELSE IF OwnershipDenied(CHOOSE r \in found : TRUE, user)
       THEN /\ calls' = [calls EXCEPT ![s] = Finish(c, "RouteForbidden")]
            /\ UNCHANGED <<restaurants, reviews, reviewReactions, nextReviewId>>
       ELSE DeleteFindOwned(s, id, UserId(user))

\* POST /reviews/:id/like and /dislike: Review.addReaction(id, req.user.id, type)
PostReaction(s, id, user, reactionType) ==
  ReactFindReview(s, id, UserId(user), reactionType)

\* the error object a failed call hands to next(): the model's errors are
\* new Error(message) with no status, none of their messages holds "ObjectId"
ErrorOf(outcome) ==
  [code |-> IF outcome = "DuplicateKey" THEN 11000 ELSE Nil,
   name |-> IF outcome = "DuplicateKey" THEN "MongoServerError"
            ELSE IF outcome = "TypeError" THEN "TypeError" ELSE "Error",
   aboutObjectId |-> FALSE,
   status |-> Nil]

\* errorHandler: the status of the response for an error
errorHandler(err) ==
  IF err.code = 11000 THEN 400
  ELSE IF err.name = "BSONError" \/ err.aboutObjectId THEN 400
  ELSE IF err.name \in {"JsonWebTokenError", "TokenExpiredError"} THEN 401
  ELSE IF err.status # Nil THEN err.status
  ELSE 500

\* the status of the response to the request behind a finished call
ResponseStatus(c) ==
  IF c.outcome \in {"ok", "notDeleted"}
  THEN IF c.op = "create" THEN 201 ELSE 200
  ELSE IF c.outcome = "RouteNotFound" THEN 404
  ELSE IF c.outcome = "RouteForbidden" THEN 403
  ELSE errorHandler(ErrorOf(c.outcome))

\* ----- specifications -----------------------------------------------------
BeginCreate(s, US, RS, RT) ==
  \E u \in US, rid \in RS, rating \in RT, comment \in Comments :
    CreateFindExisting(s, u, rid, rating, comment)

BeginUpdate(s, PS) ==
  \E id \in ReviewIds, p \in PS, u \in Users : UpdateFindOwned(s, id, p, u)

BeginDelete(s) ==
  \E id \in ReviewIds, u \in Users : DeleteFindOwned(s, id, u)

BeginReact(s) ==
  \E id \in ReviewIds, u \in Users, t \in ReactionTypes : ReactFindReview(s, id, u, t)

BeginRun(s) ==
  \E id \in ReviewIds, u \in Users, t \in ReactionTypes : ReactFirst(s, id, u, t)

\* a call in flight takes its next store step
LedgerStep(s) ==
  \/ CreateFindApproved(s)
  \/ CreateFindAny(s)
  \/ CreateInsert(s)
  \/ DeleteReactions(s)
  \/ DeleteReview(s)
  \/ RatingScan(s)
  \/ RatingWrite(s)
  \/ Return(s)

ReactStep(s) ==
  \/ ReactFindReaction(s)
  \/ ReactApply(s)
  \/ ReactInc(s)

Directory ==
  \/ \E role \in {"user", "admin"} : PostRestaurant(role)
  \/ \E id \in RestaurantIds : RestaurantApprove(id)

\* a new call takes the lowest free slot (which slot it takes is immaterial)
LowestIdle(s) == Idle(s) /\ \A t \in Slots : t < s => ~Idle(t)

FirstUser == {u \in Users : \A v \in Users : u <= v}

FirstRestaurant == {r \in RestaurantIds : \A j \in RestaurantIds : r <= j}

\* the directory opens its first restaurant, approved
OpenFirst ==
  /\ \A r \in RestaurantIds : ~restaurants[r].exists
  /\ RestaurantCreate(TRUE)

\* review mutations run one at a time: a call starts only when no other is
\* in flight
NextSeq ==
  \/ AllIdle /\ Directory
  \/ \E s \in Slots : AllIdle /\ LowestIdle(s) /\ BeginCreate(s, Users, RestaurantIds, Ratings)
  \/ \E s \in Slots : AllIdle /\ LowestIdle(s) /\ BeginUpdate(s, Patches)
  \/ \E s \in Slots : UpdateSet(s)
  \/ \E s \in Slots : AllIdle /\ LowestIdle(s) /\ BeginDelete(s)
  \/ \E s \in Slots : LedgerStep(s)

SpecSeq == Init /\ [][NextSeq]_vars

\* overlapping review mutations on one restaurant, by callers that patch
\* rating and comment only
NextRace ==
  \/ OpenFirst
  \/ \E s \in Slots : LowestIdle(s) /\ BeginCreate(s, Users, FirstRestaurant, Ratings)
  \/ \E s \in Slots : LowestIdle(s) /\ BeginUpdate(s, ContentPatches)
  \/ \E s \in Slots : UpdateSet(s)
  \/ \E s \in Slots : LowestIdle(s) /\ BeginDelete(s)
  \/ \E s \in Slots : LedgerStep(s)

SpecRace == Init /\ [][NextRace]_vars

\* requests to the review routes, one at a time
NextRoutes ==
  \/ AllIdle /\ Directory
  \/ \E s \in Slots : AllIdle /\ LowestIdle(s) /\
       \E user \in ReqUsers, rid \in RestaurantIds, comment \in Comments :
         PostReview(s, user, rid, MinRating, comment)
  \/ \E s \in Slots : AllIdle /\ LowestIdle(s) /\
       \E id \in ReviewIds, user \in ReqUsers, body \in ContentPatches :
         PutReview(s, id, user, body)
  \/ \E s \in Slots : AllIdle /\ LowestIdle(s) /\
       \E id \in ReviewIds, user \in ReqUsers : DeleteReviewRoute(s, id, user)
  \/ \E s \in Slots : AllIdle /\ LowestIdle(s) /\
       \E id \in ReviewIds, user \in ReqUsers, type \in ReactionTypes :
         PostReaction(s, id, user, type)
  \/ \E s \in Slots : CreateFindApproved(s)
  \/ \E s \in Slots : CreateFindAny(s)
  \/ \E s \in Slots : CreateInsert(s)
  \/ \E s \in Slots : RatingScan(s)
  \/ \E s \in Slots : RatingWrite(s)
  \/ \E s \in Slots : Return(s)

SpecRoutes == Init /\ [][NextRoutes]_vars

\* reactions and deletions, one call at a time
NextReactSeq ==
  \/ AllIdle /\ OpenFirst
  \/ \E s \in Slots : AllIdle /\ LowestIdle(s) /\ BeginCreate(s, FirstUser, FirstRestaurant, {MinRating})
  \/ \E s \in Slots : AllIdle /\ LowestIdle(s) /\ BeginUpdate(s, ContentPatches)
  \/ \E s \in Slots : UpdateSet(s)
  \/ \E s \in Slots : AllIdle /\ LowestIdle(s) /\ BeginReact(s)
  \/ \E s \in Slots : AllIdle /\ LowestIdle(s) /\ BeginRun(s)
  \/ \E s \in Slots : ReactAgain(s)
  \/ \E s \in Slots : AllIdle /\ LowestIdle(s) /\ BeginDelete(s)
  \/ \E s \in Slots : LedgerStep(s) \/ ReactStep(s)

SpecReactSeq == Init /\ [][NextReactSeq]_vars

\* reactions and deletions that overlap
NextReact ==
  \/ OpenFirst
  \/ \E s \in Slots : AllIdle /\ LowestIdle(s) /\ BeginCreate(s, FirstUser, FirstRestaurant, {MinRating})
  \/ \E s \in Slots : LowestIdle(s) /\ BeginReact(s)
  \/ \E s \in Slots : LowestIdle(s) /\ BeginDelete(s)
  \/ \E s \in Slots : LedgerStep(s) \/ ReactStep(s)

SpecReact == Init /\ [][NextReact]_vars

\* every call in flight is a finished Restaurant.updateRating whose caller
\* still holds the result
Resting == \A s \in Slots : Idle(s) \/ (calls[s].op = "recompute" /\ calls[s].pc = "done")

\* the restaurant directory at work (update, delete, approve) between review
\* mutations and recomputes that run one at a time
NextDirectory ==
  \/ AllIdle /\ Directory
  \/ \E id \in RestaurantIds, updateData \in RestaurantPatches :
       AllIdle /\ RestaurantUpdateById(id, updateData)
  \/ \E id \in RestaurantIds : AllIdle /\ RestaurantDeleteById(id)
  \/ \E s \in Slots : AllIdle /\ LowestIdle(s) /\ BeginCreate(s, Users, RestaurantIds, Ratings)
  \/ \E s \in Slots : AllIdle /\ LowestIdle(s) /\ BeginDelete(s)
  \/ \E s \in Slots, id \in RestaurantIds : Resting /\ LowestIdle(s) /\ RecomputeCall(s, id)
  \/ \E s \in Slots : LedgerStep(s)

SpecDirectory == Init /\ [][NextDirectory]_vars

\* no call is running: each slot is free or holds a failure its caller has
\* not picked up yet
Quiet == \A s \in Slots : Idle(s) \/ (calls[s].pc = "done" /\ calls[s].outcome = "StoreError")

\* review mutations one at a time, on a store whose calls may fail during the
\* recompute
NextFault ==
  \/ OpenFirst
  \/ \E s \in Slots : Quiet /\ LowestIdle(s) /\ BeginCreate(s, Users, FirstRestaurant, Ratings)
  \/ \E s \in Slots : Quiet /\ LowestIdle(s) /\ BeginUpdate(s, ContentPatches)
  \/ \E s \in Slots : UpdateSet(s)
  \/ \E s \in Slots : Quiet /\ LowestIdle(s) /\ BeginDelete(s)
  \/ \E s \in Slots : LedgerStep(s)
  \/ \E s \in Slots : RecomputeFails(s)

SpecFault == Init /\ [][NextFault]_vars

\* the patches of a caller that leaves the author alone
KeptAuthorPatches == {p \in Patches : p.userId = Nil}

\* every operation of the core, one call at a time, over all the restaurants
NextFrame ==
  \/ AllIdle /\ RestaurantCreate(TRUE)
  \/ \E s \in Slots : AllIdle /\ LowestIdle(s) /\ BeginCreate(s, Users, RestaurantIds, {MinRating})
  \/ \E s \in Slots : AllIdle /\ LowestIdle(s) /\ BeginUpdate(s, KeptAuthorPatches)
  \/ \E s \in Slots : UpdateSet(s)
  \/ \E s \in Slots : AllIdle /\ LowestIdle(s) /\ BeginDelete(s)
  \/ \E s \in Slots : AllIdle /\ LowestIdle(s) /\ BeginReact(s)
  \/ \E s \in Slots : AllIdle /\ LowestIdle(s) /\ GetRanking(s, Nil, NumRestaurants)
  \/ \E s \in Slots : LedgerStep(s) \/ ReactStep(s)

SpecFrame == Init /\ [][NextFrame]_vars

\* the rating and reviewCount Restaurant.updateRating stores for count reviews
\* whose ratings sum to sum
AggregateOf(sum, count) == [rating |-> RatingOf(sum, count), reviewCount |-> count]

\* aggregates of restaurants with up to MaxRankedCount reviews, the ratings
\* summing to within SumSpread of the highest sum; and the rating a
\* Restaurant.updateById call left on a restaurant without reviews
RankedAggregates ==
  UNION {{AggregateOf(sum, count) :
            sum \in {x \in (MaxRating * count - SumSpread)..(MaxRating * count) :
                       x >= MinRating * count}} : count \in 0..MaxRankedCount}
    \cup {[rating |-> 10 * MaxRating, reviewCount |-> 0]}

\* the restaurant documents the ranking is computed over
RankedDocs ==
  {[NewRestaurant(approved) EXCEPT !.category = category, !.rating = agg.rating,
                                   !.reviewCount = agg.reviewCount] :
     approved \in BOOLEAN, category \in Categories, agg \in RankedAggregates}

\* the restaurants collection holds aggregated restaurants (the ranking reads
\* no other collection: the $lookup'ed reviews are projected out)
InitRanking ==
  /\ restaurants \in [RestaurantIds -> RankedDocs]
  /\ reviews = {}
  /\ reviewReactions = << >>
  /\ nextReviewId = 1
  /\ calls = [s \in Slots |-> IdleCall]

NextRanking ==
  \/ \E s \in Slots, category \in {Nil} \cup Categories, limit \in 1..NumRestaurants :
       LowestIdle(s) /\ AllIdle /\ GetRanking(s, category, limit)
  \/ \E s \in Slots : Return(s)

SpecRanking == InitRanking /\ [][NextRanking]_vars

\* ----- properties ---------------------------------------------------------
stores == <<restaurants, reviews, reviewReactions, nextReviewId>>

\* the aggregate of the reviews that reference restaurant rid now
AggregateConsistent(rid) ==
  LET rs == ReviewsOf(rid) IN
    /\ restaurants[rid].reviewCount = Cardinality(rs)
    /\ restaurants[rid].rating = RatingOf(SumRatings(rs), Cardinality(rs))

LikeCount(id, type) ==
  Cardinality({i \in DOMAIN reviewReactions :
                 reviewReactions[i].reviewId = id /\ reviewReactions[i].type = type})

\* C1: with review mutations run one at a time, after every call that has
\* returned each restaurant's reviewCount is the number of its reviews and its
\* rating is their mean rounded to one decimal place (0 when it has none).
C1_SettledAggregates ==
  AllIdle => \A rid \in RestaurantIds : restaurants[rid].exists => AggregateConsistent(rid)

\* C2: whatever the interleaving of concurrent review mutations on a
\* restaurant, once no mutation is in progress its rating and reviewCount
\* match its current reviews.
C2_NoStaleAggregate ==
  (\A s \in Slots : calls[s].op \notin {"create", "update", "delete"})
    => \A rid \in FirstRestaurant : restaurants[rid].exists => AggregateConsistent(rid)

\* the reviews of one (userId, restaurantId) pair in collection coll
PairReviews(coll, userId, restaurantId) ==
  {r \in coll : r.userId = userId /\ r.restaurantId = restaurantId}

\* C3: a Review.create for a (userId, restaurantId) pair that already has a
\* review fails with the duplicate-review error and writes nothing: the pair
\* has as many reviews as before (one, when it had one), every restaurant's
\* rating and reviewCount are as before, and nothing is written once the
\* caller has the error.
C3_DuplicateCreateFails ==
  [][\A s \in Slots :
       /\ (Idle(s) /\ calls'[s].op = "create"
             /\ PairReviews(reviews, calls'[s].userId, calls'[s].restaurantId) # {})
          => /\ calls'[s].pc = "done"
             /\ calls'[s].outcome = "DuplicateReview"
             /\ nextReviewId' = nextReviewId
             /\ restaurants' = restaurants
             /\ Cardinality(PairReviews(reviews', calls'[s].userId, calls'[s].restaurantId))
                  = Cardinality(PairReviews(reviews, calls'[s].userId, calls'[s].restaurantId))
             /\ reviews' = reviews
       /\ (calls[s].op = "create" /\ calls[s].outcome = "DuplicateReview")
          => UNCHANGED stores]_vars

C3_Witness ==
  \E s \in Slots :
    /\ calls[s].op = "create" /\ calls[s].pc = "done"
    /\ calls[s].outcome = "DuplicateReview"
    /\ Cardinality(PairReviews(reviews, calls[s].userId, calls[s].restaurantId)) = 1

\* C4: in every reachable state, under every interleaving of review
\* mutations, at most one review exists per (userId, restaurantId) pair.
C4_OneReviewPerPair ==
  \A a \in reviews : \A b \in reviews :
    (a.userId = b.userId /\ a.restaurantId = b.restaurantId) => a = b

\* C5: whenever no addReaction or deleteById call is in progress, each
\* review's likes and dislikes equal the numbers of its stored like and
\* dislike reactions, and neither is negative.
C5_CountersMatchReactions ==
  (\A s \in Slots : calls[s].op \notin {"react", "delete"})
    => \A r \in reviews :
         /\ r.likes = LikeCount(r._id, "like")
         /\ r.dislikes = LikeCount(r._id, "dislike")
         /\ r.likes >= 0 /\ r.dislikes >= 0

\* C6: once Review.deleteById has removed the reactions, and after it has
\* returned true, getUserReaction finds no reaction on the review for any
\* user; after it has returned true the review is not found either.
C6_DeleteRemovesReactions ==
  \A s \in Slots :
    (calls[s].op = "delete" /\ calls[s].outcome \in {"none", "ok"}) =>
      /\ calls[s].pc \in {"deleteReview", "scan", "write", "done"}
           => \A u \in Users : GetUserReaction(calls[s].id, u) = {}
      /\ calls[s].pc \in {"scan", "write", "done"}
           => ~\E r \in reviews : r._id = calls[s].id

\* the cascade has run on a review that users had reacted to
C6_Witness ==
  \E s \in Slots :
    /\ calls[s].op = "delete" /\ calls[s].pc = "deleteReview"
    /\ \E r \in reviews : r._id = calls[s].id /\ r.likes + r.dislikes > 0
    /\ \A u \in Users : GetUserReaction(calls[s].id, u) = {}

\* C7: whenever no call is in progress, every stored reaction references a
\* review that exists, under every interleaving of deleteById and addReaction.
C7_NoOrphanReactions ==
  AllIdle => \A i \in DOMAIN reviewReactions :
               \E r \in reviews : r._id = reviewReactions[i].reviewId

\* C8: Review.deleteById goes through (does not fail its permission test)
\* when the review exists and the requester is its author or an administrator.
C8_AuthorOrAdminDeletes ==
  [][\A s \in Slots :
       (Idle(s) /\ calls'[s].op = "delete"
          /\ \E r \in reviews : r._id = calls'[s].id
               /\ (r.userId = calls'[s].userId \/ Role(calls'[s].userId) = "admin"))
       => calls'[s].outcome # "NotFoundOrNotOwner"]_vars

\* C9: Review.updateById reaches its write only for the review's author, and
\* only that write changes reviews; for any other editor or a missing review
\* the call fails on its own test and reviews and restaurants stay as they were.
C9_UpdateOnlyByAuthor ==
  [][\A s \in Slots :
       /\ (calls[s].op = "update" /\ reviews' # reviews)
          => /\ calls[s].pc = "set"
             /\ \E r \in reviews : r._id = calls[s].id /\ r.userId = calls[s].userId
       /\ (Idle(s) /\ calls'[s].op = "update"
             /\ ~\E r \in reviews : r._id = calls'[s].id /\ r.userId = calls'[s].userId)
          => /\ calls'[s].pc = "done"
             /\ calls'[s].outcome = "NotFoundOrNotOwner"
             /\ UNCHANGED <<reviews, restaurants>>
       /\ (calls[s].op = "update" /\ calls[s].outcome = "NotFoundOrNotOwner")
          => UNCHANGED <<reviews, restaurants>>]_vars

\* an administrator who is not the author has been refused
C9_Witness ==
  \E s \in Slots :
    /\ calls[s].op = "update" /\ calls[s].pc = "done"
    /\ calls[s].outcome = "NotFoundOrNotOwner"
    /\ Role(calls[s].userId) = "admin"
    /\ \E r \in reviews : r._id = calls[s].id /\ r.userId # calls[s].userId

\* C10: a stored review keeps its userId and restaurantId through every step.
C10_IdentityImmutable ==
  [][\A r \in reviews : \A q \in reviews' :
       r._id = q._id => (r.userId = q.userId /\ r.restaurantId = q.restaurantId)]_vars

\* C11: after a restaurant is created, its rating and reviewCount change only
\* in the write of Restaurant.updateRating for that restaurant: no other step
\* (Restaurant.updateById, Restaurant.approve, a review or reaction step)
\* changes either field.
C11_UpdateRatingSoleWriter ==
  [][\A rid \in RestaurantIds :
       (/\ restaurants[rid].exists /\ restaurants'[rid].exists
        /\ \/ restaurants'[rid].rating # restaurants[rid].rating
           \/ restaurants'[rid].reviewCount # restaurants[rid].reviewCount)
       => \E s \in Slots : /\ calls[s].pc = "write" /\ calls'[s].pc = "done"
                            /\ calls[s].restaurantId = rid]_vars

\* the restaurant a create call names can receive reviews
Reviewable(rid) == restaurants[rid].exists /\ restaurants[rid].approved

\* C12 as claimed: Review.create fails with the restaurant-not-found error
\* whenever no restaurant has the id and with the restaurant-not-approved
\* error whenever the restaurant exists unapproved, whatever reviews exist;
\* no review is inserted and no aggregate is written.
C12_CreateFailsByRestaurantState ==
  [][\A s \in Slots :
       (calls'[s].op = "create" /\ ~Reviewable(calls'[s].restaurantId))
       => /\ UNCHANGED stores
          /\ calls'[s].pc = "done"
               => calls'[s].outcome =
                    IF restaurants[calls'[s].restaurantId].exists
                    THEN "RestaurantNotApproved" ELSE "RestaurantNotFound"]_vars

\* C12 amended: when the caller has no review yet for the restaurant id,
\* Review.create fails with the restaurant-not-found error if no restaurant has
\* the id and with the restaurant-not-approved error if it exists unapproved;
\* when the caller already has one it fails with the duplicate-review error;
\* in each case no review is inserted and no aggregate is written.
C12_CreateFailsUnlessReviewed ==
  [][\A s \in Slots :
       (calls'[s].op = "create" /\ ~Reviewable(calls'[s].restaurantId))
       => /\ UNCHANGED stores
          /\ calls'[s].pc = "done"
               => calls'[s].outcome =
                    IF PairReviews(reviews, calls'[s].userId, calls'[s].restaurantId) # {}
                    THEN "DuplicateReview"
                    ELSE IF restaurants[calls'[s].restaurantId].exists
                         THEN "RestaurantNotApproved" ELSE "RestaurantNotFound"]_vars

\* a create was refused as "not found" on a deleted restaurant that other
\* users' reviews still reference
C12_Witness ==
  \E s \in Slots :
    /\ calls[s].op = "create" /\ calls[s].pc = "done"
    /\ calls[s].outcome = "RestaurantNotFound"
    /\ restaurants[calls[s].restaurantId].deleted
    /\ ReviewsOf(calls[s].restaurantId) # {}

\* what a finished Restaurant.updateRating call returned
Returned(s) ==
  [rating |-> RatingOf(calls[s].sum, calls[s].count), reviewCount |-> calls[s].count]

\* C20: a Restaurant.updateRating(id) call that has returned leaves on the
\* restaurant the rating and reviewCount it returned, and a second call made
\* right after it (no write in between) returns the same pair and leaves the
\* same two values stored.
C20_RecomputeIdempotent ==
  \A s \in Slots :
    (calls[s].op = "recompute" /\ calls[s].pc = "done") =>
      /\ restaurants[calls[s].restaurantId].exists
           => /\ restaurants[calls[s].restaurantId].rating = Returned(s).rating
              /\ restaurants[calls[s].restaurantId].reviewCount = Returned(s).reviewCount
      /\ \A u \in Slots :
           (/\ calls[u].op = "recompute" /\ calls[u].pc = "done"
            /\ calls[u].restaurantId = calls[s].restaurantId)
           => Returned(u) = Returned(s)

\* two consecutive recomputes of a restaurant that has reviews have returned
C20_Witness ==
  \E s \in Slots : \E u \in Slots :
    /\ s # u
    /\ calls[s].op = "recompute" /\ calls[s].pc = "done"
    /\ calls[u].op = "recompute" /\ calls[u].pc = "done"
    /\ calls[u].restaurantId = calls[s].restaurantId
    /\ restaurants[calls[s].restaurantId].exists
    /\ calls[s].count > 0

\* the stored reactions of user userId on review reviewId
ReactionsBy(coll, reviewId, userId) ==
  {i \in DOMAIN coll : coll[i].reviewId = reviewId /\ coll[i].userId = userId}

\* C13: toggle parity.  In a run of n consecutive addReaction(r, u, t) calls
\* that began with no reaction by u on r, after the n-th call a reaction of
\* type t by u exists iff n is odd, and the counter for t exceeds its value
\* at the start of the run by n mod 2.
C13_ToggleParity ==
  \A s \in Slots :
    (/\ calls[s].op = "react" /\ calls[s].pc = "done" /\ calls[s].outcome = "ok"
     /\ calls[s].run >= 1)
    => /\ (\E i \in ReactionsBy(reviewReactions, calls[s].id, calls[s].userId) :
             reviewReactions[i].type = calls[s].reactionType)
          <=> (calls[s].run % 2 = 1)
       /\ \E r \in reviews :
            /\ r._id = calls[s].id
            /\ CounterOf(r, calls[s].reactionType) = calls[s].base + (calls[s].run % 2)

\* the third identical like has returned and the like is active
C13_Witness ==
  \E s \in Slots :
    /\ calls[s].op = "react" /\ calls[s].pc = "done" /\ calls[s].outcome = "ok"
    /\ calls[s].run = 3 /\ calls[s].reactionType = "like"
    /\ \E r \in reviews : r._id = calls[s].id /\ r.likes = 1
    /\ GetUserReaction(calls[s].id, calls[s].userId) # {}

\* C14: an addReaction call that found the user's reaction with the other
\* type leaves exactly one reaction by the user on the review, of the new
\* type, and its one counter write takes 1 from the old type's counter and
\* adds 1 to the new type's.
C14_SwitchReaction ==
  [][\A s \in Slots :
       (/\ calls[s].op = "react"
        /\ calls[s].existingType \notin {"none", calls[s].reactionType})
       => /\ (calls[s].pc = "applyReaction" /\ calls'[s].pc # "applyReaction")
               => /\ calls'[s].pc = "inc"
                  /\ Cardinality(ReactionsBy(reviewReactions', calls[s].id, calls[s].userId)) = 1
                  /\ \A i \in ReactionsBy(reviewReactions', calls[s].id, calls[s].userId) :
                       reviewReactions'[i].type = calls[s].reactionType
          /\ (calls[s].pc = "inc" /\ calls'[s].pc # "inc")
               => /\ calls'[s].pc = "done" /\ calls'[s].outcome = "ok"
                  /\ reviewReactions' = reviewReactions
                  /\ \A r \in reviews : r._id = calls[s].id =>
                       \E q \in reviews' :
                         /\ q._id = r._id
                         /\ CounterOf(q, calls[s].reactionType)
                              = CounterOf(r, calls[s].reactionType) + 1
                         /\ CounterOf(q, calls[s].existingType)
                              = CounterOf(r, calls[s].existingType) - 1]_vars

\* a like has been switched to a dislike
C14_Witness ==
  \E s \in Slots :
    /\ calls[s].op = "react" /\ calls[s].pc = "done" /\ calls[s].outcome = "ok"
    /\ calls[s].existingType = "like" /\ calls[s].reactionType = "dislike"
    /\ \E r \in reviews : r._id = calls[s].id /\ r.likes = 0 /\ r.dislikes = 1
    /\ \E x \in GetUserReaction(calls[s].id, calls[s].userId) : x.type = "dislike"

\* C15: addReaction by the review's own author, with either type, fails with
\* the self-reaction error at its first step and writes nothing: likes,
\* dislikes and the reaction store are as before.
C15_SelfReactionFails ==
  [][\A s \in Slots :
       (/\ Idle(s) /\ calls'[s].op = "react"
        /\ \E r \in reviews : r._id = calls'[s].id /\ r.userId = calls'[s].userId)
       => /\ calls'[s].pc = "done" /\ calls'[s].outcome = "SelfReaction"
          /\ UNCHANGED stores]_vars

\* an author has been refused a dislike of the own review
C15_Witness ==
  \E s \in Slots :
    /\ calls[s].op = "react" /\ calls[s].pc = "done"
    /\ calls[s].outcome = "SelfReaction" /\ calls[s].reactionType = "dislike"
    /\ \E r \in reviews : r._id = calls[s].id /\ r.userId = calls[s].userId

\* C16: in every reachable state, under every interleaving of addReaction
\* calls, at most one reaction is stored per (reviewId, userId) pair.
C16_OneReactionPerPair ==
  \A i \in DOMAIN reviewReactions : \A j \in DOMAIN reviewReactions :
    (/\ reviewReactions[i].reviewId = reviewReactions[j].reviewId
     /\ reviewReactions[i].userId = reviewReactions[j].userId) => i = j

\* restaurant a may stand before restaurant b in a ranking: a higher
\* weightedScore, or the same with more reviews, or both the same with a rating
\* at least as high
MayPrecede(a, b) ==
  LET x == restaurants[a]
      y == restaurants[b] IN
    \/ WeightedScore(x) > WeightedScore(y)
    \/ /\ WeightedScore(x) = WeightedScore(y)
       /\ \/ x.reviewCount > y.reviewCount
          \/ x.reviewCount = y.reviewCount /\ x.rating >= y.rating

\* the approved restaurants, of the category when one is given
Eligible(category) ==
  {id \in RestaurantIds :
     /\ restaurants[id].exists /\ restaurants[id].approved
     /\ (category = Nil \/ restaurants[id].category = category)}

\* C17: a ranking that Restaurant.getRanking returned lists only approved
\* restaurants (of the category when one was given), each once, in descending
\* order of weightedScore, then reviewCount, then rating; it has limit entries
\* (all the eligible ones when they are fewer) and no restaurant left out
\* belongs before one that is listed.
C17_RankingOrdered ==
  \A s \in Slots :
    (calls[s].op = "ranking" /\ calls[s].pc = "done") =>
      LET res == calls[s].ranking
          all == Eligible(calls[s].category) IN
        /\ \A i \in DOMAIN res : res[i] \in all
        /\ \A i \in DOMAIN res : \A j \in DOMAIN res : res[i] = res[j] => i = j
        /\ Len(res) = (IF calls[s].limit < Cardinality(all)
                       THEN calls[s].limit ELSE Cardinality(all))
        /\ \A i \in DOMAIN res : \A j \in DOMAIN res :
             i < j => MayPrecede(res[i], res[j])
        /\ \A i \in DOMAIN res : \A e \in all :
             (\A j \in DOMAIN res : res[j] # e) => MayPrecede(res[i], e)

\* a ranking cut to its first entry, where an equal weightedScore was decided
\* by the reviewCount
C17_Witness ==
  \E s \in Slots :
    /\ calls[s].op = "ranking" /\ calls[s].pc = "done"
    /\ calls[s].limit = 1 /\ Len(calls[s].ranking) = 1
    /\ \E e \in Eligible(calls[s].category) :
         /\ e # calls[s].ranking[1]
         /\ WeightedScore(restaurants[e]) = WeightedScore(restaurants[calls[s].ranking[1]])
         /\ restaurants[e].reviewCount < restaurants[calls[s].ranking[1]].reviewCount
         /\ restaurants[e].rating > restaurants[calls[s].ranking[1]].rating

Aggregated(id, rating, reviewCount) ==
  /\ restaurants[id].exists /\ restaurants[id].approved
  /\ restaurants[id].rating = rating /\ restaurants[id].reviewCount = reviewCount

\* C19: with A (rating 5.0, one review) and B (rating 4.8, nine reviews) both
\* approved, A's weightedScore is 3.53, B's is 3.63, and a ranking that lists
\* both lists B before A.
C19_RankingExample ==
  \A a \in RestaurantIds : \A b \in RestaurantIds :
    (Aggregated(a, 50, 1) /\ Aggregated(b, 48, 9)) =>
      /\ WeightedScore(restaurants[a]) = 353
      /\ WeightedScore(restaurants[b]) = 363
      /\ \A s \in Slots :
           (calls[s].op = "ranking" /\ calls[s].pc = "done") =>
             \A i \in DOMAIN calls[s].ranking : \A j \in DOMAIN calls[s].ranking :
               (calls[s].ranking[i] = b /\ calls[s].ranking[j] = a) => i < j

\* a ranking that lists both A and B
C19_Witness ==
  \E a \in RestaurantIds : \E b \in RestaurantIds : \E s \in Slots :
    /\ Aggregated(a, 50, 1) /\ Aggregated(b, 48, 9)
    /\ calls[s].op = "ranking" /\ calls[s].pc = "done"
    /\ calls[s].ranking = <<b, a>>

\* C21: a Review.updateById by the author whose patch carries a rating ends
\* with the review's restaurant storing the rounded mean of its reviews (the
\* new rating included) and the reviewCount it had; one whose patch carries
\* only a comment leaves every restaurant's rating and reviewCount as before.
C21_UpdateReaggregates ==
  [][\A s \in Slots :
       /\ (/\ calls[s].op = "update" /\ calls[s].updateData.rating # Nil
           /\ calls[s].pc = "write" /\ calls'[s].pc = "done")
          => LET rid == calls[s].restaurantId
                 rs == ReviewsOf(rid) IN
               /\ restaurants'[rid].rating = RatingOf(SumRatings(rs), Cardinality(rs))
               /\ restaurants'[rid].reviewCount = restaurants[rid].reviewCount
       /\ (/\ calls[s].op = "update"
           /\ calls[s].updateData = [NoPatch EXCEPT !.comment = calls[s].updateData.comment])
          => restaurants' = restaurants]_vars

\* the call in slot s recomputes the aggregate after its review write
Recomputing(s) ==
  \/ calls[s].op \in {"create", "delete"}
  \/ calls[s].op = "update" /\ calls[s].updateData.rating # Nil

\* C22: within a Review.create, updateById (with rating) or deleteById call
\* the recompute's scan starts in the step that follows the acknowledged
\* review write (insert, $set, delete), and the call returns to its caller
\* without an error only in the step that writes the recomputed rating and
\* reviewCount to the restaurant.
C22_RecomputeChained ==
  [][\A s \in Slots :
       /\ (Recomputing(s) /\ calls[s].pc # "scan" /\ calls'[s].pc = "scan")
          => /\ calls[s].pc \in {"insert", "set", "deleteReview"}
             /\ calls[s].op = "create"
                  => \E r \in reviews' \ reviews :
                       /\ r.userId = calls[s].userId
                       /\ r.restaurantId = calls[s].restaurantId
             /\ calls[s].op = "update"
                  => \A r \in reviews' :
                       r._id = calls[s].id => r.rating = calls[s].updateData.rating
             /\ calls[s].op = "delete"
                  => ~\E r \in reviews' : r._id = calls[s].id
       /\ (/\ Recomputing(s) /\ calls[s].pc # "done" /\ calls'[s].pc = "done"
           /\ calls'[s].outcome \in {"ok", "notDeleted"})
          => /\ calls[s].pc = "write"
             /\ restaurants[calls[s].restaurantId].exists
                  => /\ restaurants'[calls[s].restaurantId].rating = Returned(s).rating
                     /\ restaurants'[calls[s].restaurantId].reviewCount
                          = Returned(s).reviewCount]_vars

\* a create has returned its review and the restaurant carries the recomputed
\* aggregate
C22_Witness ==
  \E s \in Slots :
    /\ calls[s].op = "create" /\ calls[s].pc = "done" /\ calls[s].outcome = "ok"
    /\ restaurants[calls[s].restaurantId].reviewCount >= 1
    /\ restaurants[calls[s].restaurantId].rating = Returned(s).rating

\* the aggregate stored on restaurant rid in the next state is that of the
\* reviews that reference it then
HealedNext(rid) ==
  LET rs == {r \in reviews' : r.restaurantId = rid} IN
    /\ restaurants'[rid].reviewCount = Cardinality(rs)
    /\ restaurants'[rid].rating = RatingOf(SumRatings(rs), Cardinality(rs))

\* C23: when the store fails during the recompute of a Review.create,
\* updateById or deleteById, the call ends with an error and its review
\* mutation stays applied; a call that reports success has written the
\* aggregate of the current reviews; and a failed call does nothing further
\* (no retry).
C23_RecomputeFailureSurfaces ==
  [][\A s \in Slots :
       /\ (/\ Recomputing(s) /\ calls[s].pc # "done" /\ calls'[s].pc = "done"
           /\ calls'[s].outcome \in {"ok", "notDeleted"}
           /\ restaurants[calls[s].restaurantId].exists)
          => HealedNext(calls[s].restaurantId)
       /\ (calls[s].pc \in {"scan", "write"} /\ calls'[s].outcome = "StoreError")
          => /\ calls'[s].pc = "done"
             /\ UNCHANGED stores
             /\ calls[s].op = "create"
                  => \E r \in reviews' : r._id = calls[s].id /\ r.userId = calls[s].userId
             /\ calls[s].op = "update"
                  => \E r \in reviews' :
                       r._id = calls[s].id /\ r.rating = calls[s].updateData.rating
             /\ calls[s].op = "delete"
                  => ~\E r \in reviews' : r._id = calls[s].id
       /\ calls[s].outcome = "StoreError"
          => calls'[s] \in {calls[s], IdleCall}]_vars

\* a create has failed in its recompute: the review is stored, the restaurant
\* still shows no review
C23_Witness ==
  \E s \in Slots :
    /\ calls[s].op = "create" /\ calls[s].pc = "done" /\ calls[s].outcome = "StoreError"
    /\ \E r \in reviews : r._id = calls[s].id
    /\ restaurants[calls[s].restaurantId].reviewCount = 0

\* restaurant rid stores the aggregate of the reviews that reference it
Healed(rid) ==
  LET rs == {r \in reviews : r.restaurantId = rid} IN
    /\ restaurants[rid].reviewCount = Cardinality(rs)
    /\ restaurants[rid].rating = RatingOf(SumRatings(rs), Cardinality(rs))

\* C24 as claimed: whatever the restaurant stored before, once a review
\* mutation on it (create, update or delete) has completed with no other
\* mutation overlapping, its rating and reviewCount are the aggregate of its
\* current reviews.
C24_NextMutationHeals ==
  \A s \in Slots :
    (/\ calls[s].op \in {"create", "update", "delete"}
     /\ calls[s].pc = "done" /\ calls[s].outcome = "ok"
     /\ restaurants[calls[s].restaurantId].exists)
    => Healed(calls[s].restaurantId)

\* C24 amended: whatever the restaurant stored before, once a Review.create,
\* a Review.deleteById or a Review.updateById whose patch carries a rating has
\* completed on it with no other mutation overlapping, its rating and
\* reviewCount are the aggregate of its current reviews.
C24_NextRecomputeHeals ==
  \A s \in Slots :
    (/\ Recomputing(s)
     /\ calls[s].pc = "done" /\ calls[s].outcome = "ok"
     /\ restaurants[calls[s].restaurantId].exists)
    => Healed(calls[s].restaurantId)

\* a create whose recompute failed left the restaurant stale, and the next
\* mutation on the restaurant has completed
C24_Witness ==
  \E s \in Slots : \E u \in Slots :
    /\ calls[s].op = "create" /\ calls[s].pc = "done" /\ calls[s].outcome = "StoreError"
    /\ Recomputing(u) /\ calls[u].pc = "done" /\ calls[u].outcome = "ok"
    /\ calls[u].restaurantId = calls[s].restaurantId
    /\ restaurants[calls[u].restaurantId].exists
    /\ \E r \in reviews : r._id = calls[s].id

\* the (rating, reviewCount) pairs that one scan of a set of reviews yields
ScanPairs ==
  UNION {{<<RatingOf(sum, count), count>> :
            sum \in (count * MinRating)..(count * TopRating)} :
         count \in 0..MaxReviews}

\* C25: with review mutations overlapping in any way, a restaurant's stored
\* (rating, reviewCount) is always (0, 0) or the pair one scan of a set of
\* reviews yields; every scan reads the count and the sum of the restaurant's
\* reviews at one moment, and every change of a stored rating or reviewCount
\* writes both fields from the one scan the writing call holds.
C25_PairFromOneScan ==
  /\ [](\A rid \in RestaurantIds :
          restaurants[rid].exists =>
            <<restaurants[rid].rating, restaurants[rid].reviewCount>> \in ScanPairs)
  /\ [][/\ \A s \in Slots :
            (calls[s].pc = "scan" /\ calls'[s].pc = "write") =>
              LET rs == {r \in reviews : r.restaurantId = calls[s].restaurantId} IN
                /\ calls'[s].count = Cardinality(rs)
                /\ calls'[s].sum = SumRatings(rs)
        /\ \A rid \in RestaurantIds :
            (/\ restaurants[rid].exists /\ restaurants'[rid].exists
             /\ \/ restaurants'[rid].rating # restaurants[rid].rating
                \/ restaurants'[rid].reviewCount # restaurants[rid].reviewCount)
            => \E s \in Slots :
                 /\ calls[s].pc = "write" /\ calls[s].restaurantId = rid
                 /\ calls'[s].pc = "done"
                 /\ restaurants'[rid].rating = RatingOf(calls[s].sum, calls[s].count)
                 /\ restaurants'[rid].reviewCount = calls[s].count]_vars

\* two calls overlapped and the later write stored the pair of a scan that is
\* no longer the aggregate of the restaurant's reviews
C25_Witness ==
  \E s \in Slots : \E u \in Slots :
    /\ s # u /\ ~Idle(u) /\ calls[u].restaurantId = calls[s].restaurantId
    /\ Recomputing(s) /\ calls[s].pc = "done" /\ calls[s].outcome = "ok"
    /\ restaurants[calls[s].restaurantId].exists
    /\ restaurants[calls[s].restaurantId].reviewCount = calls[s].count
    /\ restaurants[calls[s].restaurantId].rating = RatingOf(calls[s].sum, calls[s].count)
    /\ calls[s].count > 0
    /\ ~Healed(calls[s].restaurantId)

\* what the review routes answer when the Review Ledger refuses a request
LedgerFailures ==
  {"DuplicateReview", "RestaurantNotFound", "RestaurantNotApproved",
   "ReviewNotFound", "RouteNotFound", "NotFoundOrNotOwner", "RouteForbidden",
   "SelfReaction"}

\* C26: a request to a review route that the Review Ledger refuses (duplicate
\* review, restaurant not found or not approved, review not found, not the
\* owner, self-reaction) is answered with status 404, 409, 403 or 400, never
\* with 500.
C26_LedgerFailureStatus ==
  \A s \in Slots :
    (calls[s].pc = "done" /\ calls[s].outcome \in LedgerFailures)
    => ResponseStatus(calls[s]) \in {400, 403, 404, 409}

\* C28: a PUT or DELETE of a review by its non-admin author is never
\* answered 403 by the ownership test, and the userId a like or dislike
\* request hands to Review.addReaction is a user's id.
C28_AuthorPassesOwnership ==
  /\ [](\A s \in Slots :
          (/\ calls[s].pc = "done" /\ calls[s].outcome = "RouteForbidden"
           /\ calls[s].user.role = "user")
          => \A r \in reviews : r._id = calls[s].id => r.userId # calls[s].user._id)
  /\ [][\A s \in Slots :
          (Idle(s) /\ calls'[s].op = "react") => calls'[s].userId \in Users]_vars

\* no step of a Review.create against restaurant rid inserts a review of rid,
\* writes a restaurant or ends the call with success
CreatesFail(rid) ==
  /\ {r \in reviews' : r.restaurantId = rid} \subseteq reviews
  /\ \A s \in Slots :
       (/\ calls'[s] # calls[s] /\ calls'[s].op = "create"
        /\ calls'[s].restaurantId = rid)
       => /\ UNCHANGED <<restaurants, reviews>>
          /\ calls'[s].outcome # "ok"

\* a Review.create against an approved restaurant by a user who has no review
\* of it does not fail
CreatesSucceed ==
  \A s \in Slots :
    (/\ calls[s].op = "create" /\ calls[s].pc = "done"
     /\ restaurants[calls[s].restaurantId].exists
     /\ restaurants[calls[s].restaurantId].approved
     /\ ~\E r \in reviews : r.userId = calls[s].userId
                            /\ r.restaurantId = calls[s].restaurantId
                            /\ r._id # calls[s].id)
    => /\ calls[s].outcome = "ok"
       /\ \E r \in reviews : r._id = calls[s].id /\ r.userId = calls[s].userId
                             /\ r.restaurantId = calls[s].restaurantId

Outranks(a, b) ==
  \/ /\ a.reviewCount >= 1 /\ b.reviewCount >= 1
     /\ a.rating \in (10 * MinRating)..(10 * MaxRating)
     /\ b.rating \in (10 * MinRating)..(10 * MaxRating)
     /\ a.rating >= b.rating + 4
  \/ /\ b.reviewCount = 0
     /\ a.reviewCount >= 1 /\ a.rating >= 10 * MinRating

\* C29: in a ranking Restaurant.getRanking returned, a restaurant whose
\* rating is at least 0.4 above another's (both with reviews, ratings 1.0 to
\* 5.0) comes before it whatever the two reviewCounts are, and a restaurant
\* without reviews never comes before one with a review and a rating of at
\* least 1.0: where the lower one is listed, the higher one is listed earlier.
C29_QualityDominatesVolume ==
  \A s \in Slots :
    (calls[s].op = "ranking" /\ calls[s].pc = "done") =>
      \A j \in DOMAIN calls[s].ranking :
        \A a \in Candidates(calls[s].category) :
          Outranks(restaurants[a], restaurants[calls[s].ranking[j]])
          => \E i \in DOMAIN calls[s].ranking : i < j /\ calls[s].ranking[i] = a

\* a ranking that lists a restaurant with one review before one rated 0.4
\* lower with ten reviews or more
C29_Witness ==
  \E s \in Slots :
    /\ calls[s].op = "ranking" /\ calls[s].pc = "done"
    /\ Len(calls[s].ranking) = 2
    /\ LET a == restaurants[calls[s].ranking[1]]
           b == restaurants[calls[s].ranking[2]] IN
         /\ a.reviewCount = 1 /\ b.reviewCount >= 10
         /\ a.rating = b.rating + 4

\* the stored reactions, in order, without those of review id
ReactionsNotOn(seq, id) ==
  LET Other(x) == x.reviewId # id IN SelectSeq(seq, Other)

\* the stored reactions, in order, without those of user userId on review id
ReactionsNotBy(seq, id, userId) ==
  LET Other(x) == ~(x.reviewId = id /\ x.userId = userId) IN SelectSeq(seq, Other)

\* C30: a step of a Review.create, updateById or deleteById call on a review
\* of restaurant R leaves every other restaurant's rating and reviewCount and
\* every other review's likes, dislikes and reactions as they were; a step of
\* an addReaction call changes nothing but the target review's likes and
\* dislikes and the acting user's reaction on it, and no restaurant; a
\* getRanking call changes nothing that is stored.
C30_Frame ==
  [][\A s \in Slots :
       calls'[s] # calls[s] =>
         LET c == IF Idle(s) THEN calls'[s] ELSE calls[s] IN
           /\ c.op \in {"create", "update", "delete"} =>
                /\ \A rid \in RestaurantIds :
                     rid # c.restaurantId =>
                       /\ restaurants'[rid].rating = restaurants[rid].rating
                       /\ restaurants'[rid].reviewCount = restaurants[rid].reviewCount
                /\ \A r \in reviews :
                     r._id # c.id =>
                       \E q \in reviews' :
                         q._id = r._id /\ q.likes = r.likes /\ q.dislikes = r.dislikes
                /\ ReactionsNotOn(reviewReactions', c.id)
                     = ReactionsNotOn(reviewReactions, c.id)
           /\ c.op = "react" =>
                /\ UNCHANGED <<restaurants, nextReviewId>>
                /\ \A r \in reviews : r._id # c.id => r \in reviews'
                /\ \A q \in reviews' : \E r \in reviews :
                     q = [r EXCEPT !.likes = q.likes, !.dislikes = q.dislikes]
                /\ ReactionsNotBy(reviewReactions', c.id, c.userId)
                     = ReactionsNotBy(reviewReactions, c.id, c.userId)
           /\ c.op = "ranking" => UNCHANGED stores]_vars

\* a review was created on one restaurant while a review of another
\* restaurant held a reaction, and a later reaction and ranking left both
\* restaurants' aggregates in place
C30_Witness ==
  \E s \in Slots : \E r \in reviews :
    /\ calls[s].op = "create" /\ calls[s].pc = "done" /\ calls[s].outcome = "ok"
    /\ r.restaurantId # calls[s].restaurantId
    /\ r.likes + r.dislikes > 0
    /\ Len(reviewReactions) > 0
    /\ restaurants[r.restaurantId].reviewCount > 0
    /\ restaurants[calls[s].restaurantId].reviewCount > 0

====
